---- MODULE Spec2Model ----
(***************************************************************************)
(* A model of svc-go-counter (src/main.go): the counter handler, the       *)
(* store it increments, the process lifecycle of main() and the "http"     *)
(* readiness check.                                                        *)
(*                                                                         *)
(* Strings are sequences of one-character strings, so that the regular     *)
(* expression match and the key formatting are computed, not assumed.      *)
(***************************************************************************)
EXTENDS Integers, Sequences, FiniteSets, TLC

\* ------------------------------------------------------------------ bounds
\* Number of HTTP requests the clients send to the primary listener.
MaxReqs == 2
\* The value of a counter that an earlier run left in the store.
MaxInitial == 1

\* ------------------------------------------------------- program constants
\* type ServerStatus int; const ( Starting = iota; Running; ShuttingDown )
Starting == 0
Running == 1
ShuttingDown == 2

StatusOK == 200
StatusBadRequest == 400
StatusInternalServerError == 500

\* const BaseLabel = "next"
BaseLabel == <<"n", "e", "x", "t">>
\* Config.RedisPrefix, default:"counter"
RedisPrefix == <<"c", "o", "u", "n", "t", "e", "r">>
\* params := CounterRequest{Label: "default"}
DefaultLabel == <<"d", "e", "f", "a", "u", "l", "t">>

\* The characters of the class [a-zA-Z0-9] that the modelled labels use.
AlnumChars == {"a", "b", "d", "e", "f", "l", "t", "u", "0", "9", "A", "Z"}

\* ------------------------------------------------------------------ inputs
\* The label values the clients send: a plain alphanumeric label (the
\* default's own name), a label without any alphanumeric character, and a
\* label that mixes an alphanumeric with punctuation and the key separator.
LabelParams ==
    { DefaultLabel, <<"!", "@">>, <<"!", "a", ".">> }

\* What a request carries, as the handler sees it: whether r.ParseForm fails,
\* whether paramDecoder.Decode fails, and the label parameter if there is one.
WellFormed(hasLabel, label) ==
    [parseErr |-> FALSE, decodeErr |-> FALSE, hasLabel |-> hasLabel, label |-> label]

RequestInputs ==
    { [parseErr |-> TRUE, decodeErr |-> FALSE, hasLabel |-> FALSE, label |-> <<>>],
      [parseErr |-> FALSE, decodeErr |-> TRUE, hasLabel |-> FALSE, label |-> <<>>],
      WellFormed(FALSE, <<>>) }
    \cup { WellFormed(TRUE, l) : l \in LabelParams }

NoInput == [parseErr |-> FALSE, decodeErr |-> FALSE, hasLabel |-> FALSE, label |-> <<"-">>]

\* ------------------------------------------------------------ pure helpers
\* The match done wrong: every label passes.
MatchAnything(label) == Len(label) >= 0

\* The match done wrong: the pattern is anchored, the whole label must be
\* alphanumeric.
MatchWhole(label) ==
    Len(label) > 0 /\ \A i \in 1..Len(label) : label[i] \in AlnumChars

\* regexp.Match("[a-zA-Z0-9]+", label): an unanchored match, true as soon as
\* one character of the label is in the class.
Match(label) == \E i \in 1..Len(label) : label[i] \in AlnumChars

\* The key built wrong: the request's label is not used, every label gets
\* the key of the default label.
getKeyOfDefault(label) ==
    RedisPrefix \o <<".">> \o BaseLabel \o <<".">>
        \o (IF Len(label) >= 0 THEN DefaultLabel ELSE label)

\* fmt.Sprintf("%s.%s.%s", config.RedisPrefix, BaseLabel, label)
getKey(label) == RedisPrefix \o <<".">> \o BaseLabel \o <<".">> \o label

\* The decoding done wrong: params starts without the default label, so a
\* request without the parameter has the empty label.
DecodedLabelNoDefault(input) == IF input.hasLabel THEN input.label ELSE <<>>

\* paramDecoder.Decode(&params, r.Form) on CounterRequest{Label: "default"}:
\* the label parameter overwrites the default only when it is present.
DecodedLabel(input) == IF input.hasLabel THEN input.label ELSE DefaultLabel

\* ErrorResponse.render(w, code): json.Marshal of a struct holding one string
\* cannot fail, so the only header written is http.Error(w, encoded, code).
ErrorResponseRender(code) == code

\* NumberResponse.render(w): no explicit WriteHeader, so w.Write sends 200.
NumberResponseRender == StatusOK

\* The check done wrong: ready whenever the server is past Starting.
HttpReadinessCheckNotStarting(status) == status # Starting

\* The "http" readiness check: nil (ready) iff serverStatus == Running.
HttpReadinessCheck(status) == status = Running

\* The key space of the store, as far as the modelled labels reach into it:
\* the keys of the format <RedisPrefix>.<BaseLabel>.<label>.
Keys ==
    { RedisPrefix \o <<".">> \o BaseLabel \o <<".">> \o l :
        l \in LabelParams \cup {DefaultLabel} }

Reqs == 1..MaxReqs

\* ------------------------------------------------------------------- state
VARIABLES
    mainPc,        \* the statement main() is about to execute
    serverStatus,  \* var serverStatus = Starting
    config,        \* TRUE once envconfig.Process has filled config
    rclient,       \* TRUE once rclient points to a redis client
    health,        \* the readiness checks registered on the health handler
    adminPc,       \* the goroutine running adminServer.ListenAndServe
    listener,      \* the primary listener: unbound, bound, accepting, closed
    reqs,          \* per request: the handler goroutine's position and locals
    store,         \* the remote store: key -> integer (0: the key is absent)
    store0,        \* the store as it was when the process started
    lastCheck      \* the last result of the "http" readiness check

vars == << mainPc, serverStatus, config, rclient, health, adminPc, listener,
           reqs, store, store0, lastCheck >>

lifecycleVars == << mainPc, serverStatus, config, rclient, health, listener >>

NoReq ==
    [pc |-> "none", input |-> NoInput, val |-> 0, err |-> FALSE, code |-> 0,
     body |-> "none", attempts |-> 0, applied |-> 0, responses |-> 0]

NoCheck == [made |-> FALSE, status |-> Starting, ready |-> FALSE]

\* The process runs until main returns or log.Fatal exits it.
Alive == mainPc \notin {"exited", "fatal"}

InFlight(r) == reqs[r].pc \in {"accepted", "validated", "called"}

\* The stores the process may find: every key absent, or every key left at a
\* positive value by an earlier run.
InitialStores == { [k \in Keys |-> v] : v \in {0, MaxInitial} }

Init ==
    /\ mainPc = "initConfig"
    /\ serverStatus = Starting
    /\ config = FALSE
    /\ rclient = FALSE
    /\ health = {}
    /\ adminPc = "none"
    /\ listener = "unbound"
    /\ reqs = [r \in Reqs |-> NoReq]
    /\ store \in InitialStores
    /\ store0 = store
    /\ lastCheck = NoCheck

\* ------------------------------------------------------------- main()
\* The startup done wrong: serverStatus is set to Running as soon as the
\* configuration is read, before anything else is set up.
initConfigSetsRunning ==
    /\ mainPc = "initConfig"
    /\ \E ok \in BOOLEAN :
         IF ok THEN /\ config' = TRUE
                    /\ serverStatus' = Running
                    /\ mainPc' = "initAdminServer"
               ELSE /\ config' = config
                    /\ serverStatus' = serverStatus
                    /\ mainPc' = "fatal"
    /\ UNCHANGED << rclient, health, adminPc, listener, reqs, store, store0,
                    lastCheck >>

\* initConfig(): envconfig.Process fills config, or log.Fatal ends the process.
initConfig ==
    /\ mainPc = "initConfig"
    /\ \E ok \in BOOLEAN :
         IF ok THEN /\ config' = TRUE
                    /\ mainPc' = "initAdminServer"
               ELSE /\ config' = config
                    /\ mainPc' = "fatal"
    /\ UNCHANGED << serverStatus, rclient, health, adminPc, listener, reqs,
                    store, store0, lastCheck >>

\* initHealthcheck(): registers the "http" and the "redis" readiness checks.
initHealthcheck == health \cup {"http", "redis"}

\* initAdminServer(): initHealthcheck(), then the admin server is built and
\* its ListenAndServe is started in a goroutine of its own.
initAdminServer ==
    /\ mainPc = "initAdminServer"
    /\ health' = initHealthcheck
    /\ adminPc' = "spawned"
    /\ mainPc' = "initRedisClient"
    /\ UNCHANGED << serverStatus, config, rclient, listener, reqs, store,
                    store0, lastCheck >>

\* The admin goroutine done wrong: a failure to bind ends the process
\* (log.Fatal in place of log.Println).
adminListenAndServeFatal ==
    /\ Alive
    /\ adminPc = "spawned"
    /\ \E ok \in BOOLEAN :
         /\ adminPc' = IF ok THEN "serving" ELSE "failed"
         /\ mainPc' = IF ok THEN mainPc ELSE "fatal"
    /\ UNCHANGED << serverStatus, config, rclient, health, listener, reqs,
                    store, store0, lastCheck >>

\* The admin goroutine: adminServer.ListenAndServe() binds and serves, or
\* fails, and the failure is only logged.
adminListenAndServe ==
    /\ Alive
    /\ adminPc = "spawned"
    /\ \E ok \in BOOLEAN : adminPc' = IF ok THEN "serving" ELSE "failed"
    /\ UNCHANGED << lifecycleVars, reqs, store, store0, lastCheck >>

\* initRedisClient(): rclient = redis.NewClient(...); no connection is made.
initRedisClient ==
    /\ mainPc = "initRedisClient"
    /\ rclient' = TRUE
    /\ mainPc' = "Listen"
    /\ UNCHANGED << serverStatus, config, health, adminPc, listener, reqs,
                    store, store0, lastCheck >>

\* The bind done wrong: the error of net.Listen is only logged and main goes
\* on to serve and to set Running.
ListenErrorLogged ==
    /\ mainPc = "Listen"
    /\ \E ok \in BOOLEAN :
         /\ listener' = IF ok THEN "bound" ELSE listener
         /\ mainPc' = "Serve"
    /\ UNCHANGED << serverStatus, config, rclient, health, adminPc, reqs,
                    store, store0, lastCheck >>

\* net.Listen("tcp", ":port"): the listener is bound, or log.Fatal.
Listen ==
    /\ mainPc = "Listen"
    /\ \E ok \in BOOLEAN :
         IF ok THEN /\ listener' = "bound"
                    /\ mainPc' = "Serve"
               ELSE /\ listener' = listener
                    /\ mainPc' = "fatal"
    /\ UNCHANGED << serverStatus, config, rclient, health, adminPc, reqs,
                    store, store0, lastCheck >>

\* go server.Serve(listener): the goroutine is started; main goes on.
goServe ==
    /\ mainPc = "Serve"
    /\ mainPc' = "setRunning"
    /\ UNCHANGED << serverStatus, config, rclient, health, adminPc, listener,
                    reqs, store, store0, lastCheck >>

ServeSpawned ==
    mainPc \in {"setRunning", "waitSignal", "setShuttingDown", "Shutdown", "draining"}

\* The goroutine of server.Serve reaches its accept loop.  After Shutdown it
\* returns ErrServerClosed instead, and the listener stays closed.
serverServe ==
    /\ ServeSpawned
    /\ listener = "bound"
    /\ listener' = "accepting"
    /\ UNCHANGED << mainPc, serverStatus, config, rclient, health, adminPc,
                    reqs, store, store0, lastCheck >>

\* serverStatus = Running
setRunning ==
    /\ mainPc = "setRunning"
    /\ serverStatus' = Running
    /\ mainPc' = "waitSignal"
    /\ UNCHANGED << config, rclient, health, adminPc, listener, reqs, store,
                    store0, lastCheck >>

\* The signal handled wrong: it takes effect wherever main is once the
\* listener is being set up, not only at <-shutdown.
InterruptAnywhere ==
    /\ mainPc \in {"Listen", "Serve", "setRunning", "waitSignal"}
    /\ mainPc' = "setShuttingDown"
    /\ UNCHANGED << serverStatus, config, rclient, health, adminPc, listener,
                    reqs, store, store0, lastCheck >>

\* <-shutdown: main blocks until os.Interrupt is delivered on the channel.
\* The channel is unbuffered, so a signal sent while main is elsewhere is
\* dropped by the signal package and changes nothing.
Interrupt ==
    /\ mainPc = "waitSignal"
    /\ mainPc' = "setShuttingDown"
    /\ UNCHANGED << serverStatus, config, rclient, health, adminPc, listener,
                    reqs, store, store0, lastCheck >>

\* serverStatus = ShuttingDown
setShuttingDown ==
    /\ mainPc = "setShuttingDown"
    /\ serverStatus' = ShuttingDown
    /\ mainPc' = "Shutdown"
    /\ UNCHANGED << config, rclient, health, adminPc, listener, reqs, store,
                    store0, lastCheck >>

\* The shutdown done wrong: the listener is closed and main returns without
\* waiting for the requests in flight.
ShutdownWithoutDrain ==
    /\ mainPc = "Shutdown"
    /\ listener' = "closed"
    /\ mainPc' = "exited"
    /\ UNCHANGED << serverStatus, config, rclient, health, adminPc, reqs,
                    store, store0, lastCheck >>

\* server.Shutdown(shutdownCtx) begins: the listener is closed; when no
\* request is in flight it returns nil at once and main returns after
\* "Graceful shutdown complete."; otherwise it waits.
Shutdown ==
    /\ mainPc = "Shutdown"
    /\ listener' = "closed"
    /\ mainPc' = IF \E r \in Reqs : InFlight(r) THEN "draining" ELSE "exited"
    /\ UNCHANGED << serverStatus, config, rclient, health, adminPc, reqs,
                    store, store0, lastCheck >>

\* server.Shutdown polls: every in-flight request has finished, it returns
\* nil and main returns.
ShutdownDrained ==
    /\ mainPc = "draining"
    /\ \A r \in Reqs : ~InFlight(r)
    /\ mainPc' = "exited"
    /\ UNCHANGED << serverStatus, config, rclient, health, adminPc, listener,
                    reqs, store, store0, lastCheck >>

\* The deadline done wrong: the context has no timeout and never expires.
ShutdownDeadlineNever ==
    /\ mainPc = "draining"
    /\ FALSE
    /\ UNCHANGED vars

\* The deadline done wrong: the error server.Shutdown returns is not looked
\* at and main goes on to report graceful completion.
ShutdownDeadlineIgnored ==
    /\ mainPc = "draining"
    /\ mainPc' = "exited"
    /\ UNCHANGED << serverStatus, config, rclient, health, adminPc, listener,
                    reqs, store, store0, lastCheck >>

\* shutdownCtx expires while server.Shutdown waits: it returns ctx.Err()
\* and log.Fatal ends the process with whatever is still in flight.
ShutdownDeadline ==
    /\ mainPc = "draining"
    /\ mainPc' = "fatal"
    /\ UNCHANGED << serverStatus, config, rclient, health, adminPc, listener,
                    reqs, store, store0, lastCheck >>

\* ------------------------------------------------------ readiness check
\* The health handler runs the "http" check: it reads serverStatus once.
\* The read is not synchronised with main's writes; a word-sized read yields
\* the value before or after a concurrent write, which the interleaving of
\* this action with setRunning and setShuttingDown covers.
ReadyCheck ==
    /\ Alive
    /\ adminPc = "serving"
    /\ "http" \in health
    /\ lastCheck' = [made |-> TRUE, status |-> serverStatus,
                     ready |-> HttpReadinessCheck(serverStatus)]
    /\ UNCHANGED << lifecycleVars, adminPc, reqs, store, store0 >>

\* ------------------------------------------------------- counterHandler
\* The server accepts a connection and starts counterHandler for its request
\* in a goroutine of its own.  Requests are numbered in the order accepted.
Accept(r) ==
    /\ Alive
    /\ listener = "accepting"
    /\ reqs[r].pc = "none"
    /\ \A q \in Reqs : q < r => reqs[q].pc # "none"
    /\ reqs' = [reqs EXCEPT ![r].pc = "accepted"]
    /\ UNCHANGED << lifecycleVars, adminPc, store, store0, lastCheck >>

\* A handler that answers: the rendered status and body, one response more.
Rendered(req, code, body) ==
    [req EXCEPT !.pc = "done", !.code = code, !.body = body,
                !.responses = @ + 1]

\* counterHandler up to the store call: r.ParseForm(), paramDecoder.Decode
\* and regexp.Match.  Each failure renders an ErrorResponse with
\* http.StatusBadRequest and returns.  What the request carries is read here
\* for the first time, so it is drawn here.
Validated(req, input) ==
    IF input.parseErr
    THEN Rendered([req EXCEPT !.input = input],
                  ErrorResponseRender(StatusBadRequest), "error")
    ELSE IF input.decodeErr
    THEN Rendered([req EXCEPT !.input = input],
                  ErrorResponseRender(StatusBadRequest), "error")
    ELSE IF ~Match(DecodedLabel(input))
    THEN Rendered([req EXCEPT !.input = input],
                  ErrorResponseRender(StatusBadRequest), "error")
    ELSE [req EXCEPT !.input = input, !.pc = "validated"]

counterHandlerValidate(r) ==
    /\ Alive
    /\ reqs[r].pc = "accepted"
    /\ \E input \in RequestInputs :
         reqs' = [reqs EXCEPT ![r] = Validated(@, input)]
    /\ UNCHANGED << lifecycleVars, adminPc, store, store0, lastCheck >>

\* The increment done wrong: the counter advances by two.
StoreIncrByTwo(s, key) == [s EXCEPT ![key] = @ + 2]

\* The increment done wrong: the new value is computed from a copy of the
\* counter taken at startup, so concurrent increments overwrite each other.
StoreIncrFromCopy(s, key) == [s EXCEPT ![key] = store0[key] + 1]

\* The increment done wrong: the command sent is DECR.
StoreDecr(s, key) == [s EXCEPT ![key] = @ - 1]

\* INCR key, inside the store: one atomic read-modify-write of one key.
StoreIncr(s, key) == [s EXCEPT ![key] = @ + 1]

\* The store call done wrong: a failed increment is tried a second time.
CalledWithRetry(req, outcome, val) ==
    [req EXCEPT !.pc = "called",
                !.attempts = IF outcome = "ok" THEN @ + 1 ELSE @ + 2,
                !.applied = IF outcome = "refused" THEN @ ELSE @ + 1,
                !.err = outcome # "ok",
                !.val = IF outcome = "ok" THEN val ELSE 0]

\* The handler's locals after the store call: one attempt more, val and err.
Called(req, outcome, val) ==
    [req EXCEPT !.pc = "called",
                !.attempts = @ + 1,
                !.applied = IF outcome = "refused" THEN @ ELSE @ + 1,
                !.err = outcome # "ok",
                !.val = IF outcome = "ok" THEN val ELSE 0]

\* The handler done wrong: it goes to the store only while serverStatus is
\* Running and waits otherwise.
counterHandlerIncrWhenRunning(r) ==
    /\ Alive
    /\ rclient
    /\ serverStatus = Running
    /\ reqs[r].pc = "validated"
    /\ LET key == getKey(DecodedLabel(reqs[r].input))
           incremented == [store EXCEPT ![key] = @ + 1]
       IN \E outcome \in {"ok", "refused", "lost"} :
            /\ store' = IF outcome = "refused" THEN store ELSE incremented
            /\ reqs' = [reqs EXCEPT ![r].pc = "called",
                                    ![r].attempts = @ + 1,
                                    ![r].applied =
                                        IF outcome = "refused" THEN @ ELSE @ + 1,
                                    ![r].err = outcome # "ok",
                                    ![r].val =
                                        IF outcome = "ok" THEN incremented[key]
                                                          ELSE 0]
    /\ UNCHANGED << lifecycleVars, adminPc, store0, lastCheck >>

\* val, err := rclient.Incr(getKey(params.Label)).Result().  The command
\* succeeds and returns the new value; or it fails before the store applied
\* it (connection refused, overflow, wrong type); or the store applied it and
\* the reply was lost (read timeout), which the client also reports as err.
counterHandlerIncr(r) ==
    /\ Alive
    /\ rclient
    /\ reqs[r].pc = "validated"
    /\ LET key == getKey(DecodedLabel(reqs[r].input))
           incremented == StoreIncr(store, key)
       IN \E outcome \in {"ok", "refused", "lost"} :
            /\ store' = IF outcome = "refused" THEN store ELSE incremented
            /\ reqs' = [reqs EXCEPT ![r] = Called(@, outcome, incremented[key])]
    /\ UNCHANGED << lifecycleVars, adminPc, store0, lastCheck >>

\* The response done wrong: a store failure is answered with a 500.
RespondedServerError(req) ==
    IF req.err
    THEN Rendered(req, ErrorResponseRender(StatusInternalServerError), "error")
    ELSE Rendered(req, NumberResponseRender, "value")

\* counterHandler after the store call: an ErrorResponse with
\* http.StatusBadRequest when err != nil, NumberResponse{Value: val} otherwise.
Responded(req) ==
    IF req.err
    THEN Rendered(req, ErrorResponseRender(StatusBadRequest), "error")
    ELSE Rendered(req, NumberResponseRender, "value")

counterHandlerRespond(r) ==
    /\ Alive
    /\ reqs[r].pc = "called"
    /\ reqs' = [reqs EXCEPT ![r] = Responded(@)]
    /\ UNCHANGED << lifecycleVars, adminPc, store, store0, lastCheck >>

\* ------------------------------------------------------- specifications
Lifecycle ==
    \/ initConfig
    \/ initAdminServer
    \/ adminListenAndServe
    \/ initRedisClient
    \/ Listen
    \/ goServe
    \/ serverServe
    \/ setRunning
    \/ Interrupt
    \/ setShuttingDown
    \/ Shutdown
    \/ ShutdownDrained
    \/ ShutdownDeadline
    \/ ReadyCheck

Handle ==
    \E r \in Reqs :
        \/ counterHandlerValidate(r)
        \/ counterHandlerIncr(r)
        \/ counterHandlerRespond(r)

Next ==
    \/ Lifecycle
    \/ \E r \in Reqs : Accept(r)
    \/ Handle

Spec == Init /\ [][Next]_vars

\* The clients send one request at a time, as the loops of the handler
\* tests do: the next request is sent after the previous response.
AcceptSeq(r) ==
    /\ \A q \in Reqs : ~InFlight(q)
    /\ Accept(r)

NextSeq ==
    \/ Lifecycle
    \/ \E r \in Reqs : AcceptSeq(r)
    \/ Handle

SeqSpec == Init /\ [][NextSeq]_vars

\* main's own goroutine keeps running while it has a statement to execute,
\* and the timer of shutdownCtx fires GracefulShutdownTimeout after it was
\* set.  Nothing is assumed of the handlers: one may block for ever in the
\* store call.  The signal comes when the operator sends it, if ever.
MainStep ==
    \/ initConfig
    \/ initAdminServer
    \/ initRedisClient
    \/ Listen
    \/ goServe
    \/ setRunning
    \/ setShuttingDown
    \/ Shutdown
    \/ ShutdownDrained

FairSpec ==
    /\ Init
    /\ [][Next]_vars
    /\ WF_vars(MainStep)
    /\ WF_vars(ShutdownDeadline)

\* The same scheduling with the clients of SeqSpec, which send a request
\* only after the one before it was answered.
FairSeqSpec ==
    /\ SeqSpec
    /\ WF_vars(MainStep)
    /\ WF_vars(ShutdownDeadline)

\* ------------------------------------------------------------- properties
\* What the claims speak of, said without the handler's own helpers.
HasAlnum(label) == \E i \in DOMAIN label : label[i] \in AlnumChars

WellFormedInput(in) == ~in.parseErr /\ ~in.decodeErr

\* The label a well-formed request is for: its parameter, or "default".
LabelOf(in) == IF in.hasLabel THEN in.label ELSE DefaultLabel

\* <prefix>.next.<label>, with the default prefix "counter".
KeyOf(label) ==
    <<"c", "o", "u", "n", "t", "e", "r", ".", "n", "e", "x", "t", ".">> \o label

\* The requests for label L whose handler has called the store.
CalledFor(L) ==
    { r \in Reqs : /\ reqs[r].pc \in {"called", "done"}
                   /\ WellFormedInput(reqs[r].input)
                   /\ LabelOf(reqs[r].input) = L }

AcceptedLabels ==
    { LabelOf(in) : in \in { x \in RequestInputs :
                                WellFormedInput(x) /\ HasAlnum(LabelOf(x)) } }

\* C1: requests sent one after the other for a label whose key is absent at
\* the start, all of them successful: the k-th of them is answered 200 with
\* the value k.  Checked under SeqSpec, where requests are numbered in the
\* order in which they are sent and handled.
SequentialRequestsCountFromOne ==
    \A L \in AcceptedLabels :
        LET S == CalledFor(L)
        IN  (store0[KeyOf(L)] = 0 /\ \A r \in S : ~reqs[r].err)
            => \A r \in S :
                 /\ reqs[r].val = Cardinality({ q \in S : q <= r })
                 /\ reqs[r].pc = "done"
                      => reqs[r].code = 200 /\ reqs[r].body = "value"

SequentialRequestsWitness ==
    \E L \in AcceptedLabels :
        /\ store0[KeyOf(L)] = 0
        /\ CalledFor(L) = Reqs
        /\ \A r \in Reqs : reqs[r].pc = "done" /\ reqs[r].code = 200
                              /\ reqs[r].val = r

\* C2: concurrent callers that each issue one successful increment of the
\* same label get pairwise distinct values that fill v+1..v+M, v being the
\* value before them, and the store ends at v+M.
ConcurrentIncrementsDistinctAndContiguous ==
    \A L \in AcceptedLabels :
        LET S == CalledFor(L)
            k == KeyOf(L)
            M == Cardinality(S)
        IN  (\A r \in S : ~reqs[r].err)
            => /\ \A r, q \in S : r # q => reqs[r].val # reqs[q].val
               /\ { reqs[r].val : r \in S } = (store0[k] + 1)..(store0[k] + M)
               /\ store[k] = store0[k] + M

\* Every request is in flight at once, past its increment and before its
\* response, on a key that held a value before.
ConcurrentIncrementsWitness ==
    \E L \in AcceptedLabels :
        /\ store0[KeyOf(L)] > 0
        /\ CalledFor(L) = Reqs
        /\ \A r \in Reqs : reqs[r].pc = "called" /\ ~reqs[r].err

\* The step is one taken by the handler of request r.
StepOf(r) == reqs'[r] # reqs[r]

\* C3: a request for label A, successful or not, leaves the stored value of
\* every other accepted label B unchanged.
DistinctLabelsIndependent ==
    [][ \A r \in Reqs : \A B \in AcceptedLabels :
          ( /\ StepOf(r)
            /\ WellFormedInput(reqs'[r].input)
            /\ LabelOf(reqs'[r].input) # B )
          => store'[KeyOf(B)] = store[KeyOf(B)] ]_vars

\* A request for one label has been applied while the counter of another
\* label, present from the start, still holds its value.
DistinctLabelsWitness ==
    \E r \in Reqs : \E B \in AcceptedLabels :
        /\ reqs[r].applied = 1
        /\ LabelOf(reqs[r].input) # B
        /\ store0[KeyOf(B)] > 0
        /\ store[KeyOf(B)] = store0[KeyOf(B)]
        /\ store[KeyOf(LabelOf(reqs[r].input))]
             = store0[KeyOf(LabelOf(reqs[r].input))] + 1

\* The increments applied on behalf of the requests in rs.
RECURSIVE AppliedBy(_)
AppliedBy(rs) ==
    IF rs = {} THEN 0
    ELSE LET r == CHOOSE x \in rs : TRUE
         IN  reqs[r].applied + AppliedBy(rs \ {r})

InvalidLabel(in) == WellFormedInput(in) /\ ~HasAlnum(LabelOf(in))

\* The requests for label L whose handler has read them.
RequestsFor(L) ==
    { r \in Reqs : /\ reqs[r].pc \in {"validated", "called", "done"}
                   /\ WellFormedInput(reqs[r].input)
                   /\ LabelOf(reqs[r].input) = L }

\* C4: a request whose label has no alphanumeric character is answered 400
\* and mutates nothing: it never calls the store, and the value of every key
\* is its initial value plus the increments applied for the requests that
\* are for its label, so the rejected request leaves no trace in any sequence.
InvalidLabelRejectedWithoutMutation ==
    /\ \A r \in Reqs :
         (reqs[r].pc # "none" /\ reqs[r].pc # "accepted"
            /\ InvalidLabel(reqs[r].input))
         => /\ reqs[r].pc = "done"
            /\ reqs[r].code = 400
            /\ reqs[r].attempts = 0
            /\ reqs[r].applied = 0
    /\ \A L \in LabelParams \cup {DefaultLabel} :
         store[KeyOf(L)] = store0[KeyOf(L)] + AppliedBy(RequestsFor(L))

\* A rejected request, and after it an increment that succeeded on a key
\* that was absent: it is answered with 1.
InvalidLabelWitness ==
    \E r, q \in Reqs :
        /\ r < q
        /\ reqs[r].pc = "done" /\ InvalidLabel(reqs[r].input)
        /\ reqs[r].code = 400
        /\ reqs[q].pc = "done" /\ reqs[q].code = 200 /\ reqs[q].val = 1

ValidationFailed(in) == in.parseErr \/ in.decodeErr \/ InvalidLabel(in)

\* C5: a request makes at most one attempt to increment: none when its
\* validation fails, exactly one once it has passed validation and called
\* the store, never a second one after a failure; a 200 response stands for
\* exactly one applied increment.
AtMostOneIncrementPerRequest ==
    \A r \in Reqs :
        /\ reqs[r].attempts <= 1
        /\ reqs[r].applied <= reqs[r].attempts
        /\ (reqs[r].pc = "done" /\ ValidationFailed(reqs[r].input))
             => reqs[r].attempts = 0
        /\ (reqs[r].pc \in {"called", "done"} /\ ~ValidationFailed(reqs[r].input))
             => reqs[r].attempts = 1
        /\ (reqs[r].pc = "done" /\ reqs[r].code = 200)
             => reqs[r].attempts = 1 /\ reqs[r].applied = 1

\* A request whose increment failed has been answered, after one attempt.
FailedIncrementWitness ==
    \E r \in Reqs :
        /\ reqs[r].pc = "done" /\ reqs[r].err
        /\ reqs[r].attempts = 1 /\ reqs[r].code = 400

\* C6: a handler that has run to its end has written exactly one response,
\* and a handler that has not has written none; the response is a 200 with
\* the new value when validation and the increment both succeeded, and a 400
\* with an error otherwise; it is never a 5xx.
OneResponse200Or400 ==
    \A r \in Reqs :
        /\ reqs[r].responses <= 1
        /\ reqs[r].pc = "done" <=> reqs[r].responses = 1
        /\ reqs[r].pc = "done"
             => /\ reqs[r].code \in {200, 400}
                /\ reqs[r].code < 500
                /\ reqs[r].code = 200
                     <=> (~ValidationFailed(reqs[r].input) /\ ~reqs[r].err)
                /\ reqs[r].code = 200
                     => reqs[r].body = "value" /\ reqs[r].val >= 1
                /\ reqs[r].code = 400 => reqs[r].body = "error"

\* One request answered 400 after its increment failed, another answered
\* 400 after its validation failed.
BothFailuresAre400Witness ==
    \E r, q \in Reqs :
        /\ reqs[r].pc = "done" /\ reqs[r].err /\ reqs[r].code = 400
        /\ reqs[q].pc = "done" /\ ValidationFailed(reqs[q].input)
        /\ reqs[q].code = 400

DefaultKey ==
    <<"c", "o", "u", "n", "t", "e", "r", ".", "n", "e", "x", "t", ".",
      "d", "e", "f", "a", "u", "l", "t">>

ForDefault(in) ==
    WellFormedInput(in) /\ (~in.hasLabel \/ in.label = DefaultLabel)

\* C7: a request without a label parameter is handled as one for "default":
\* it passes validation, and what it increments is the key
\* counter.next.default, by one, and no other key; a request with
\* label=default does the same.
NoLabelIncrementsDefaultKey ==
    [][ \A r \in Reqs :
          (StepOf(r) /\ ForDefault(reqs'[r].input))
          => /\ reqs'[r].pc = "done" => reqs'[r].attempts = 1
             /\ \A k \in Keys :
                  store'[k] = store[k]
                    + (IF k = DefaultKey /\ reqs'[r].applied > reqs[r].applied
                       THEN 1 ELSE 0) ]_vars

\* A request without a label and a request with label=default have both
\* incremented, and the default key has advanced by two.
NoLabelWitness ==
    \E r, q \in Reqs :
        /\ reqs[r].pc = "done" /\ ~reqs[r].input.hasLabel
        /\ WellFormedInput(reqs[r].input) /\ reqs[r].code = 200
        /\ reqs[q].pc = "done" /\ reqs[q].input.hasLabel
        /\ reqs[q].input.label = DefaultLabel /\ reqs[q].code = 200
        /\ store[DefaultKey] = store0[DefaultKey] + 2

\* main has executed serverStatus = Running.
ReachedRunning ==
    mainPc \in {"waitSignal", "setShuttingDown", "Shutdown", "draining",
                "exited", "fatal"} /\ listener # "unbound"

\* C8: the "http" readiness check reports ready exactly when serverStatus is
\* Running as it is made: never before main has set Running, never once
\* serverStatus is ShuttingDown, and after a check has seen ShuttingDown no
\* later check reports ready.
HttpReadyIffRunning ==
    /\ [](lastCheck.ready => ReachedRunning)
    /\ [][ lastCheck' # lastCheck
            => /\ lastCheck'.ready <=> serverStatus = 1
               /\ serverStatus = 0 => ~lastCheck'.ready
               /\ serverStatus = 2 => ~lastCheck'.ready
               /\ (lastCheck.made /\ lastCheck.status = 2) => ~lastCheck'.ready
          ]_vars

\* A check made after serverStatus became ShuttingDown has reported not
\* ready.
HttpNotReadyAfterShutdownWitness ==
    /\ lastCheck.made /\ lastCheck.status = 2 /\ ~lastCheck.ready
    /\ serverStatus = 2

\* C9: serverStatus starts as Starting and changes only from Starting to
\* Running and from Running to ShuttingDown.
ServerStatusTransitions ==
    /\ serverStatus = 0
    /\ [][ serverStatus' # serverStatus
            => \/ serverStatus = 0 /\ serverStatus' = 1
               \/ serverStatus = 1 /\ serverStatus' = 2 ]_vars

ServerStatusShuttingDownWitness == serverStatus = 2 /\ mainPc = "exited"

\* The handler of request r has a step to take.
HandlerCanStep(r) ==
    ENABLED ( \/ counterHandlerValidate(r)
              \/ counterHandlerIncr(r)
              \/ counterHandlerRespond(r) )

\* C10: the listener is closed only after serverStatus is ShuttingDown (the
\* "http" check is not ready by then); once it is closed no request is
\* accepted; the requests in flight keep running while Shutdown waits, main
\* does not return while one of them is unanswered, and only the expiry of
\* the grace period ends the process under a request in flight.
ShutdownOrder ==
    /\ [](listener = "closed" => serverStatus = 2)
    /\ [][ (listener # "closed" /\ listener' = "closed")
            => serverStatus = 2 /\ ~HttpReadinessCheck(serverStatus) ]_vars
    /\ [][ listener = "closed"
            => \A r \in Reqs : reqs[r].pc = "none" => reqs'[r].pc = "none" ]_vars
    /\ [](mainPc = "draining" => \A r \in Reqs : InFlight(r) => HandlerCanStep(r))
    /\ [](mainPc = "exited"
            => \A r \in Reqs : /\ ~InFlight(r)
                                /\ reqs[r].pc = "done" => reqs[r].responses = 1)
    /\ [][ (Alive /\ ~Alive' /\ \E r \in Reqs : InFlight(r))
            => mainPc = "draining" /\ mainPc' = "fatal" ]_vars

\* Shutdown closed the listener with a request in flight and is waiting;
\* every request accepted before has since been answered with its value.
DrainedWitness ==
    /\ mainPc = "draining"
    /\ listener = "closed"
    /\ serverStatus = 2
    /\ \E r \in Reqs : reqs[r].pc = "done"
    /\ \A r \in Reqs : reqs[r].pc # "none"
                          => reqs[r].pc = "done" /\ reqs[r].code = 200

\* C11: once main has received the interrupt the process terminates, whatever
\* the handlers in flight do; when the deadline expires the process ends at
\* once, and the handlers still in flight take no further step and write no
\* response.  Checked under FairSeqSpec; it holds under FairSpec as well.
ShutdownBoundedByDeadline ==
    /\ (mainPc = "setShuttingDown") ~> ~Alive
    /\ [][ (mainPc = "draining" /\ mainPc' = "fatal")
            => /\ ~Alive'
               /\ reqs' = reqs ]_vars
    /\ [][ ~Alive => reqs' = reqs /\ store' = store ]_vars

\* The deadline has expired with a handler still in its store call: the
\* process has ended and the request stays unanswered.
DeadlineAbandonsWitness ==
    /\ mainPc = "fatal"
    /\ listener = "closed"
    /\ \E r \in Reqs : reqs[r].pc = "validated" /\ reqs[r].responses = 0

\* The requests whose label has passed validation: their handler is at or
\* past the call of getKey and of the store.
PastValidation ==
    { r \in Reqs : \/ reqs[r].pc \in {"validated", "called"}
                   \/ reqs[r].pc = "done" /\ reqs[r].attempts > 0 }

HasSeparator(label) == \E i \in DOMAIN label : label[i] = "."

\* C12: the labels that pass validation map to pairwise distinct keys, and
\* none of them contains the separator ".", so that no label with a "." in
\* it reaches getKey or the store.
NoSeparatorReachesGetKey ==
    /\ \A r, q \in PastValidation :
          LET L1 == DecodedLabel(reqs[r].input)
              L2 == DecodedLabel(reqs[q].input)
          IN  L1 # L2 => getKey(L1) # getKey(L2)
    /\ \A r \in PastValidation : ~HasSeparator(DecodedLabel(reqs[r].input))

\* C13: a well-formed request passes validation and goes on to the store
\* call exactly when its label holds at least one alphanumeric character,
\* wherever in the label; otherwise it is answered 400 and the store is left
\* alone.  The key the store call increments is the prefix followed by the
\* label as it was sent, punctuation included.
SubstringMatchDecides ==
    [][ \A r \in Reqs :
          /\ ( /\ reqs[r].pc = "accepted"
               /\ StepOf(r)
               /\ WellFormedInput(reqs'[r].input) )
              => IF HasAlnum(LabelOf(reqs'[r].input))
                 THEN reqs'[r].pc = "validated"
                 ELSE /\ reqs'[r].pc = "done"
                      /\ reqs'[r].code = 400
                      /\ store' = store
          /\ ( /\ reqs[r].pc = "validated"
               /\ StepOf(r)
               /\ reqs'[r].applied = 1 )
              => \A k \in Keys :
                   store'[k] = IF k = KeyOf(LabelOf(reqs[r].input))
                               THEN store[k] + 1
                               ELSE store[k] ]_vars

\* A request for the label "!a." has been answered 200 and the key
\* counter.next.!a. has advanced.
PunctuatedLabelWitness ==
    \E r \in Reqs :
        /\ reqs[r].input = WellFormed(TRUE, <<"!", "a", ".">>)
        /\ reqs[r].pc = "done"
        /\ reqs[r].code = 200
        /\ store[<<"c", "o", "u", "n", "t", "e", "r", ".",
                   "n", "e", "x", "t", ".", "!", "a", ".">>]
             > store0[<<"c", "o", "u", "n", "t", "e", "r", ".",
                        "n", "e", "x", "t", ".", "!", "a", ".">>]

\* No step lowers the value stored under any key.
StoreNeverDecreases == \A k \in Keys : store'[k] >= store[k]

\* Request q holds a value the store returned for the key of request r.
HoldsValueOnKeyOf(q, r) ==
    /\ reqs[q].pc \in {"called", "done"}
    /\ ~reqs[q].err
    /\ LabelOf(reqs[q].input) = LabelOf(reqs[r].input)

\* C14, as stated: the store never decreases, and a successful response
\* carries a value greater than that of every successful response for the
\* same key that was completed before it.
ResponsesIncreaseInCompletionOrder ==
    /\ [][StoreNeverDecreases]_vars
    /\ [][ \A r \in Reqs :
             ( /\ reqs[r].pc = "called"
               /\ reqs'[r].pc = "done"
               /\ reqs'[r].code = 200 )
             => \A q \in Reqs \ {r} :
                  (reqs[q].pc = "done" /\ HoldsValueOnKeyOf(q, r))
                  => reqs[q].val < reqs'[r].val ]_vars

\* C14, amended: the store never decreases, and the value a successful
\* increment returns, which is the value its response carries, is greater
\* than the value of every successful increment of the same key applied
\* before it, answered already or not.
ResponsesIncreaseInIncrementOrder ==
    /\ [][StoreNeverDecreases]_vars
    /\ [][ \A r \in Reqs :
             ( /\ reqs[r].pc = "validated"
               /\ reqs'[r].pc = "called"
               /\ ~reqs'[r].err )
             => \A q \in Reqs \ {r} :
                  HoldsValueOnKeyOf(q, r) => reqs[q].val < reqs'[r].val ]_vars
    /\ [][ \A r \in Reqs :
             (reqs[r].pc = "called" /\ reqs'[r].pc = "done" /\ ~reqs[r].err)
             => /\ reqs'[r].code = 200
                /\ reqs'[r].val = reqs[r].val ]_vars

\* Two increments of one key overlap: the later one, with the greater value,
\* has been answered 200 while the earlier one has its value and is not
\* answered yet.
LaterIncrementAnsweredFirstWitness ==
    \E r, q \in Reqs :
        /\ reqs[r].pc = "called"
        /\ ~reqs[r].err
        /\ reqs[q].pc = "done"
        /\ reqs[q].code = 200
        /\ HoldsValueOnKeyOf(q, r)
        /\ reqs[r].val < reqs[q].val

\* C15: server.Shutdown ends in one of two ways, and each is final.  main
\* reaches "Graceful shutdown complete." only from a Shutdown that found no
\* request in flight, at its start or while waiting; when the deadline cuts
\* the wait short under a request in flight the process ends in log.Fatal;
\* after log.Fatal main never reports graceful completion, and the reverse.
ShutdownOutcomes ==
    /\ [][ (mainPc \in {"Shutdown", "draining"} /\ mainPc' # mainPc)
            => /\ mainPc' \in {"draining", "exited", "fatal"}
               /\ mainPc' = "exited" => \A r \in Reqs : ~InFlight(r)
               /\ (\E r \in Reqs : InFlight(r))
                    => \/ mainPc = "Shutdown" /\ mainPc' = "draining"
                       \/ mainPc = "draining" /\ mainPc' = "fatal" ]_vars
    /\ [][ (mainPc' = "exited" /\ mainPc # "exited")
            => mainPc \in {"Shutdown", "draining"} ]_vars
    /\ [][ mainPc = "fatal" => mainPc' = "fatal" ]_vars
    /\ [][ mainPc = "exited" => mainPc' = "exited" ]_vars

\* main has returned after a graceful shutdown: the listener is closed and
\* every request that was accepted has its one response.
GracefulCompleteWitness ==
    /\ mainPc = "exited"
    /\ listener = "closed"
    /\ \A r \in Reqs : reqs[r].pc = "done" /\ reqs[r].responses = 1

\* main has executed go server.Serve(listener).
ServeStarted ==
    mainPc \notin {"initConfig", "initAdminServer", "initRedisClient",
                   "Listen", "Serve"}
    /\ ~(mainPc = "fatal" /\ listener = "unbound")

\* C16, as stated: the configuration first, then the store client, then the
\* readiness checks, then the primary listener bound and its serving
\* started, and serverStatus leaves Starting only after all of these.
StartupOrderAsStated ==
    /\ rclient => config
    /\ health # {} => rclient
    /\ listener # "unbound" => health # {}
    /\ serverStatus # 0 => listener # "unbound" /\ ServeStarted

\* C16, amended: the configuration first, then the readiness checks together
\* with the start of the admin listener, then the store client, then the
\* primary listener bound and the goroutine of server.Serve started, and
\* serverStatus leaves Starting only after all of these.
StartupOrder ==
    /\ health # {} => config
    /\ health # {} <=> adminPc # "none"
    /\ rclient => health = {"http", "redis"}
    /\ listener # "unbound" => rclient
    /\ ServeStarted => listener # "unbound"
    /\ serverStatus # 0
         => config /\ health # {} /\ rclient /\ listener # "unbound" /\ ServeStarted

\* serverStatus is Running, everything is initialised, and the goroutine of
\* server.Serve, started already, has not reached its accept loop yet.
RunningBeforeAcceptLoopWitness ==
    /\ serverStatus = 1
    /\ config
    /\ health = {"http", "redis"}
    /\ rclient
    /\ listener = "bound"

\* C17: when net.Listen fails, or the configuration cannot be read, main's
\* next state is the end of the process; in that end state serverStatus is
\* still Starting, the last readiness check, if there was one, said not
\* ready, no request was accepted and the store is untouched; and nothing
\* happens after the process has ended.
StartupFailureIsFatal ==
    /\ [][ (mainPc = "Listen" /\ mainPc' # mainPc /\ listener' = "unbound")
            => mainPc' = "fatal" ]_vars
    /\ [][ (mainPc = "initConfig" /\ mainPc' # mainPc /\ ~config')
            => mainPc' = "fatal" ]_vars
    /\ []( (mainPc = "fatal" /\ listener = "unbound")
            => /\ serverStatus = 0
               /\ ~lastCheck.ready
               /\ \A r \in Reqs : reqs[r].pc = "none"
               /\ store = store0 )
    /\ [][ mainPc = "fatal" => vars' = vars ]_vars

\* net.Listen failed after the configuration was read and the admin
\* listener had answered a readiness probe: the process has ended.
BindFailureWitness ==
    /\ mainPc = "fatal"
    /\ config
    /\ rclient
    /\ listener = "unbound"
    /\ lastCheck.made

\* main has its next startup statement to execute.
StartupCanStep ==
    /\ mainPc = "initRedisClient" => ENABLED initRedisClient
    /\ mainPc = "Listen" => ENABLED Listen
    /\ mainPc = "Serve" => ENABLED goServe
    /\ mainPc = "setRunning" => ENABLED setRunning

\* C18: the admin listener's goroutine is started before the store client is
\* made and before the primary listener is bound; whether it binds or fails,
\* its step changes nothing of main, of the primary listener, of the requests
\* or of the store; and after it has failed main still has each of its
\* startup statements to execute, the primary listener still accepts and the
\* handlers still run.
AdminListenerBestEffort ==
    /\ [](rclient \/ listener # "unbound" => adminPc # "none")
    /\ [][ (adminPc = "spawned" /\ adminPc' # adminPc)
            => /\ adminPc' \in {"serving", "failed"}
               /\ UNCHANGED << lifecycleVars, reqs, store >> ]_vars
    /\ []( adminPc = "failed"
            => /\ StartupCanStep
               /\ \A r \in Reqs :
                    /\ (Alive /\ InFlight(r)) => HandlerCanStep(r)
                    /\ ( /\ Alive
                         /\ listener = "accepting"
                         /\ reqs[r].pc = "none"
                         /\ \A q \in Reqs : q < r => reqs[q].pc # "none" )
                       => ENABLED Accept(r) )

\* The admin listener failed to bind; the service is Running all the same
\* and has answered a counter request with its value.
AdminFailedStillServingWitness ==
    /\ adminPc = "failed"
    /\ serverStatus = 1
    /\ rclient
    /\ listener = "accepting"
    /\ \E r \in Reqs : reqs[r].pc = "done" /\ reqs[r].code = 200

\* C19: while serverStatus is Running the primary listener is bound and the
\* store client exists.  The handler does not look at serverStatus: in each
\* of the three states a request in flight has its next step to take, the
\* listener that accepts takes the next request, a successful store call
\* advances the request's key by one and yields the new value, and the
\* response carries it with a 200; no handler step changes serverStatus.
HandlerNotGatedOnStatus ==
    /\ [](serverStatus = 1 => listener # "unbound" /\ rclient)
    /\ []( \A s \in {0, 1, 2} : \A r \in Reqs :
             (serverStatus = s /\ Alive)
             => /\ InFlight(r) => HandlerCanStep(r)
                /\ ( /\ listener = "accepting"
                     /\ reqs[r].pc = "none"
                     /\ \A q \in Reqs : q < r => reqs[q].pc # "none" )
                   => ENABLED Accept(r) )
    /\ [][ \A r \in Reqs :
             StepOf(r)
             => /\ serverStatus' = serverStatus
                /\ ( /\ reqs[r].pc = "validated"
                     /\ ~reqs'[r].err )
                   => LET k == KeyOf(LabelOf(reqs[r].input))
                      IN  /\ store'[k] = store[k] + 1
                          /\ reqs'[r].val = store'[k]
                /\ ( /\ reqs[r].pc = "called"
                     /\ ~reqs[r].err )
                   => /\ reqs'[r].pc = "done"
                      /\ reqs'[r].code = 200
                      /\ reqs'[r].val = reqs[r].val ]_vars

\* A request accepted after server.Serve started and before main set Running
\* has been answered 200 with its value, its key advanced in the store,
\* while serverStatus is still Starting.
ServedWhileStartingWitness ==
    /\ serverStatus = 0
    /\ mainPc = "setRunning"
    /\ \E r \in Reqs :
         /\ reqs[r].pc = "done"
         /\ reqs[r].code = 200
         /\ reqs[r].applied = 1
         /\ store[KeyOf(LabelOf(reqs[r].input))]
              > store0[KeyOf(LabelOf(reqs[r].input))]

====
